---- MODULE Spec2Model ----
(***************************************************************************)
(* A model of libvmm: the flexible-array-member (FAM) records that carry   *)
(* variable-length kernel structures, and the root / machine nodes that    *)
(* own a kernel file descriptor and issue ioctl requests through it.       *)
(*                                                                         *)
(* FamSpec is the specification of the FAM records (one record type at a   *)
(* time, chosen in FamInit; records of different C++ types never interact).*)
(* Spec, OwnerSpec and DispatchSpec are the specifications of the nodes    *)
(* and of the kernel's descriptor table they talk to: the life of the root *)
(* nodes, the ownership of the descriptors, and the requests.              *)
(* MachineSpec, VcpuSpec and MsrSpec are the specifications of one machine *)
(* with what the kernel keeps for it, of its processors, and of the        *)
(* exchange of register-value lists.                                       *)
(***************************************************************************)
EXTENDS Integers, Sequences, FiniteSets, TLC

VARIABLES kind, recs, heap, fault, famLast, copied,
          fdtable, sys, vms, closes, last,
          vcpus, devs, kvmvm, kvcpu, madeVcpu

famVars == <<kind, recs, heap, fault, famLast, copied>>
machVars == <<vcpus, devs, kvmvm, kvcpu, madeVcpu>>
nodeVars == <<fdtable, sys, vms, closes, last, machVars>>
vars == <<kind, recs, heap, fault, famLast, copied, fdtable, sys, vms, closes, last,
          vcpus, devs, kvmvm, kvcpu, madeVcpu>>

(***************************************************************************)
(* Bounds of the model.                                                    *)
(***************************************************************************)
\* largest element count a record is constructed with
MaxCount == 2
\* size of the process's descriptor table: open fails with EMFILE beyond it
MaxFds == 3
\* largest value a successful request returns (0 is always possible)
MaxRet == 1
\* calls of close() made on one root node
MaxCloseCalls == 2

(***************************************************************************)
(* FAM records: types.hpp / types.cpp                                      *)
(***************************************************************************)
Kinds == {"MsrIndexList", "MsrFeatureList", "MsrList", "CpuidList", "IrqRoutingList"}

\* The record types that declare a copy constructor and operator=(T other).
Copyable == {"MsrList", "CpuidList", "IrqRoutingList"}

\* sizeof(kvm_cpuid_entry2): ten __u32 fields
SizeofCpuidEntry == 40
\* sizeof(kvm_irq_routing_entry): four __u32 fields and a union of __u32[8]
SizeofIrqEntry == 48

\* The two record objects of a scenario: a source and a destination.
Recs == {"s", "d"}

\* The value of an empty std::unique_ptr.
NULL == 0
\* Addresses the allocator hands out: one per record, and one for the
\* temporary that operator=(T other) holds while it swaps.
AllocIds == 1..(Cardinality(Recs) + 1)

\* An entry's content, abstracted to the all-zero entry that value-
\* initialisation leaves and one entry that is not all-zero.
Vals == {0, 1}
\* What a read past the last allocated entry yields.
OutOfBounds == -1

NoBuf == [live |-> FALSE, units |-> 0, count |-> 0, ents |-> <<>>]
NoRec == [live |-> FALSE, ptr |-> NULL]

\* Sequences over S of length at most n.
SeqsUpTo(S, n) == UNION {[1..k -> S] : k \in 0..n}

\* The argument each record type passes to FamStruct(n): the length of the
\* Buffer array it allocates.
BufferUnits(k, n) ==
    CASE k = "MsrIndexList" -> n + 1
      [] k = "MsrFeatureList" -> n + 1
      [] k = "MsrList" -> n * 2 + 1
      [] k = "CpuidList" -> n * SizeofCpuidEntry + 2
      [] k = "IrqRoutingList" -> n * (SizeofIrqEntry \div 2) + 1

\* sizeof(Buffer) of each record type: FamStruct<Struct, Buffer>. The
\* declaration of IrqRoutingList is missing; its Buffer is taken to be the
\* 8-byte unit its header fills.
SizeofIrqBuffer == 8
SizeofBuffer(k) ==
    CASE k = "MsrIndexList" -> 4
      [] k = "MsrFeatureList" -> 4
      [] k = "MsrList" -> 8
      [] k = "CpuidList" -> 4
      [] k = "IrqRoutingList" -> SizeofIrqBuffer
\* The bytes new Buffer[units] allocates.
AllocatedBytes(k, buf) == buf.units * SizeofBuffer(k)
\* The sizes of the kernel structures: the header up to the flexible array
\* and one element of it.
HeaderBytes(k) ==
    CASE k = "MsrIndexList" -> 4
      [] k = "MsrFeatureList" -> 4
      [] k = "MsrList" -> 8
      [] k = "CpuidList" -> 8
      [] k = "IrqRoutingList" -> 8
ElementBytes(k) ==
    CASE k = "MsrIndexList" -> 4
      [] k = "MsrFeatureList" -> 4
      [] k = "MsrList" -> 16
      [] k = "CpuidList" -> SizeofCpuidEntry
      [] k = "IrqRoutingList" -> SizeofIrqEntry

\* new Buffer[n](): a live, value-initialised (all-zero) allocation. The
\* header's count field and the n requested entries read as zero.
FamStruct(units, n) ==
    [live |-> TRUE, units |-> units, count |-> 0, ents |-> [i \in 1..n |-> 0]]

\* The header's count after the constructor body ran (ptr_->nmsrs = n, ...).
CtorCountBad(n) == n + 1
CtorCount(n) == n

\* T(const size_t n): FamStruct(...) then the count field is set to n.
FamCtor(k, n) == [FamStruct(BufferUnits(k, n), n) EXCEPT !.count = CtorCount(n)]

\* size(): the header's count field.
size(buf) == buf.count
\* begin() and end() as offsets into ptr_->entries.
begin(buf) == 0
end(buf) == begin(buf) + buf.count
\* The elements an iteration over [begin(), end()) visits, in order.
Span(buf) ==
    [i \in 1..(end(buf) - begin(buf)) |->
        IF begin(buf) + i <= Len(buf.ents) THEN buf.ents[begin(buf) + i]
        ELSE OutOfBounds]

\* The lowest free address (the allocator reuses freed addresses).
Alloc(h) == CHOOSE a \in AllocIds : ~h[a].live /\ \A b \in AllocIds : ~h[b].live => a <= b

\* The deleter of the unique_ptr: delete[] on a non-null pointer.
Delete(h, p) == IF p = NULL THEN h ELSE [h EXCEPT ![p] = NoBuf]

\* The predicate the range constructors hand to std::copy_if.
RangePredBad(e) == e # 0
RangePred(e) == TRUE

\* std::copy_if(first, last, ptr_->entries, pred): the kept elements are
\* written to consecutive entries, starting at entries[0].
RECURSIVE copy_if(_, _, _)
copy_if(input, ents, out) ==
    IF input = <<>> THEN ents
    ELSE IF RangePred(Head(input))
         THEN copy_if(Tail(input), [ents EXCEPT ![out] = Head(input)], out + 1)
         ELSE copy_if(Tail(input), ents, out)

\* T(Iterator first, Iterator last): T(std::distance(first, last)), then
\* copy_if into the entries.
RangeCtor(k, input) ==
    LET b == FamCtor(k, Len(input))
    IN  [b EXCEPT !.ents = copy_if(input, b.ents, 1)]

\* T(value_type entry): T(1), then entries[0] = entry.
EntryCtor(k, e) ==
    LET b == FamCtor(k, 1)
    IN  [b EXCEPT !.ents = [b.ents EXCEPT ![1] = e]]

\* What a moved-from std::unique_ptr holds.
MovedFromBad(p) == p
MovedFrom(p) == NULL

\* Where the copy constructor's buffer lives: a fresh allocation, made by
\* the range constructor it delegates to.
CopyTargetBad(h, p) == p
CopyTarget(h, p) == Alloc(h)

\* copied[r]: r was made as a copy of the other record, and since then the
\* other record was left alone (history, for the scenarios of the claims).
\* The buffer of record r, and the records that own address a.
Buf(r) == heap[recs[r].ptr]
Owners(a) == {r \in Recs : recs[r].live /\ recs[r].ptr = a}
Valid(r) == recs[r].live /\ recs[r].ptr # NULL

FamRecord(op, dst, src, n, input) ==
    [op |-> op, dst |-> dst, src |-> src, n |-> n, input |-> input]

\* A step that dereferences a null ptr_ (size(), begin() or end() of a
\* moved-from record): the process is killed.
NullDeref(op, dst, src) ==
    /\ fault' = "null_deref"
    /\ famLast' = FamRecord(op, dst, src, 0, <<>>)
    /\ UNCHANGED <<kind, recs, heap, copied>>

\* T x(n): the counted constructor.
FamConstruct(r, n) ==
    /\ fault = "none" /\ ~recs[r].live
    /\ LET a == Alloc(heap)
       IN  /\ heap' = [heap EXCEPT ![a] = FamCtor(kind, n)]
           /\ recs' = [recs EXCEPT ![r] = [live |-> TRUE, ptr |-> a]]
    /\ famLast' = FamRecord("ctor", r, r, n, <<>>)
    /\ copied' = [copied EXCEPT ![r] = FALSE]
    /\ UNCHANGED <<kind, fault>>

\* T x(entry).
FamConstructEntry(r, e) ==
    /\ fault = "none" /\ ~recs[r].live /\ kind \in Copyable
    /\ LET a == Alloc(heap)
       IN  /\ heap' = [heap EXCEPT ![a] = EntryCtor(kind, e)]
           /\ recs' = [recs EXCEPT ![r] = [live |-> TRUE, ptr |-> a]]
    /\ famLast' = FamRecord("entry_ctor", r, r, 1, <<e>>)
    /\ copied' = [copied EXCEPT ![r] = FALSE]
    /\ UNCHANGED <<kind, fault>>

\* T x(first, last), and T x(container), which delegates to it.
FamConstructRange(r, input) ==
    /\ fault = "none" /\ ~recs[r].live /\ kind \in Copyable
    /\ LET a == Alloc(heap)
       IN  /\ heap' = [heap EXCEPT ![a] = RangeCtor(kind, input)]
           /\ recs' = [recs EXCEPT ![r] = [live |-> TRUE, ptr |-> a]]
    /\ famLast' = FamRecord("range_ctor", r, r, Len(input), input)
    /\ copied' = [copied EXCEPT ![r] = FALSE]
    /\ UNCHANGED <<kind, fault>>

\* T d(s): the copy constructor, T(other.begin(), other.end()).
FamCopyConstruct(d, s) ==
    /\ fault = "none" /\ kind \in Copyable
    /\ d # s /\ ~recs[d].live /\ recs[s].live
    /\ IF recs[s].ptr = NULL
       THEN NullDeref("copy_ctor", d, s)
       ELSE /\ LET a == CopyTarget(heap, recs[s].ptr)
               IN  /\ heap' = [heap EXCEPT ![a] = RangeCtor(kind, Span(Buf(s)))]
                   /\ recs' = [recs EXCEPT ![d] = [live |-> TRUE, ptr |-> a]]
            /\ famLast' = FamRecord("copy_ctor", d, s, 0, <<>>)
            /\ copied' = [r \in Recs |-> r = d /\ d # s]
            /\ UNCHANGED <<kind, fault>>

\* d = s: operator=(T other) with other copy-constructed from s; the
\* pointers are swapped and other's destructor frees d's old buffer.
FamCopyAssign(d, s) ==
    /\ fault = "none" /\ kind \in Copyable
    /\ recs[d].live /\ recs[s].live
    /\ IF recs[s].ptr = NULL
       THEN NullDeref("copy_assign", d, s)
       ELSE /\ LET a == CopyTarget(heap, recs[s].ptr)
                   other == RangeCtor(kind, Span(Buf(s)))
                   h1 == [heap EXCEPT ![a] = other]
                   old == recs[d].ptr
               IN  /\ recs' = [recs EXCEPT ![d].ptr = a]
                   /\ heap' = IF old = a THEN h1 ELSE Delete(h1, old)
            /\ famLast' = FamRecord("copy_assign", d, s, 0, <<>>)
            /\ copied' = [r \in Recs |-> r = d /\ d # s]
            /\ UNCHANGED <<kind, fault>>

\* T d(std::move(s)): the defaulted move constructor moves ptr_.
FamMoveConstruct(d, s) ==
    /\ fault = "none"
    /\ d # s /\ ~recs[d].live /\ recs[s].live
    /\ recs' = [recs EXCEPT ![d] = [live |-> TRUE, ptr |-> recs[s].ptr],
                            ![s].ptr = MovedFrom(recs[s].ptr)]
    /\ famLast' = FamRecord("move_ctor", d, s, 0, <<>>)
    /\ copied' = [r \in Recs |-> FALSE]
    /\ UNCHANGED <<kind, heap, fault>>

\* d = std::move(s): other is move-constructed from s, the pointers are
\* swapped and other's destructor frees d's old buffer. (The implicit move
\* assignment of the index lists resets d's unique_ptr to s's released
\* pointer: the same effect.)
FamMoveAssign(d, s) ==
    /\ fault = "none"
    /\ recs[d].live /\ recs[s].live
    /\ LET other == recs[s].ptr
           r1 == [recs EXCEPT ![s].ptr = MovedFrom(recs[s].ptr)]
           old == r1[d].ptr
       IN  /\ recs' = [r1 EXCEPT ![d].ptr = other]
           /\ heap' = IF old = other THEN heap ELSE Delete(heap, old)
    /\ famLast' = FamRecord("move_assign", d, s, 0, <<>>)
    /\ copied' = [r \in Recs |-> FALSE]
    /\ UNCHANGED <<kind, fault>>

\* begin()[i] = v: a write through the mutable iterator.
FamWrite(r, i, v) ==
    /\ fault = "none" /\ recs[r].live
    /\ IF recs[r].ptr = NULL
       THEN NullDeref("write", r, r)
       ELSE /\ i < size(Buf(r))
            /\ heap' = [heap EXCEPT ![recs[r].ptr].ents[begin(Buf(r)) + i + 1] = v]
            /\ famLast' = FamRecord("write", r, r, i, <<v>>)
            /\ copied' = [x \in Recs |-> x = r /\ copied[r]]
            /\ UNCHANGED <<kind, recs, fault>>

\* ~T(): the unique_ptr calls its deleter on a non-null pointer.
FamDestroy(r) ==
    /\ recs[r].live /\ fault = "none"
    /\ recs' = [recs EXCEPT ![r] = NoRec]
    /\ IF recs[r].ptr # NULL /\ ~heap[recs[r].ptr].live
       THEN fault' = "double_free" /\ heap' = heap
       ELSE fault' = fault /\ heap' = Delete(heap, recs[r].ptr)
    /\ famLast' = FamRecord("dtor", r, r, 0, <<>>)
    /\ copied' = [x \in Recs |-> FALSE]
    /\ UNCHANGED kind

NodeInitVars ==
    /\ fdtable = <<>> /\ sys = <<>> /\ vms = <<>> /\ closes = <<>>
    /\ last = <<>>
    /\ vcpus = <<>> /\ devs = <<>> /\ kvmvm = <<>> /\ kvcpu = <<>>
    /\ madeVcpu = <<>>

FamInit ==
    /\ kind \in Kinds
    /\ recs = [r \in Recs |-> NoRec]
    /\ heap = [a \in AllocIds |-> NoBuf]
    /\ fault = "none"
    /\ famLast = FamRecord("init", "s", "s", 0, <<>>)
    /\ copied = [r \in Recs |-> FALSE]
    /\ NodeInitVars

FamNext ==
    \/ \E r \in Recs, n \in 0..MaxCount : FamConstruct(r, n) /\ UNCHANGED nodeVars
    \/ \E r \in Recs, e \in Vals : FamConstructEntry(r, e) /\ UNCHANGED nodeVars
    \/ \E r \in Recs, input \in SeqsUpTo(Vals, MaxCount) :
          FamConstructRange(r, input) /\ UNCHANGED nodeVars
    \/ \E d, s \in Recs : FamCopyConstruct(d, s) /\ UNCHANGED nodeVars
    \/ \E d, s \in Recs : FamCopyAssign(d, s) /\ UNCHANGED nodeVars
    \/ \E d, s \in Recs : FamMoveConstruct(d, s) /\ UNCHANGED nodeVars
    \/ \E d, s \in Recs : FamMoveAssign(d, s) /\ UNCHANGED nodeVars
    \/ \E r \in Recs, i \in 0..(MaxCount - 1), v \in Vals :
          FamWrite(r, i, v) /\ UNCHANGED nodeVars
    \/ \E r \in Recs : FamDestroy(r) /\ UNCHANGED nodeVars

FamSpec == FamInit /\ [][FamNext]_vars

\* The records of include/vmm/kvm/types.hpp: its MsrList has the layout of
\* MsrIndexList (new uint32_t[size + 1]) and its Msrs the layout of MsrList
\* (new uint64_t[size * 2 + 1]).
LegacyKinds == {"MsrIndexList", "MsrList"}
\* new Buffer[n] without an initialiser: a live allocation whose elements
\* hold indeterminate values.
Uninitialised(units, n) ==
    {[live |-> TRUE, units |-> units, count |-> 0, ents |-> e] :
        e \in [1..n -> Vals]}
\* MsrList(size), Msrs(size): the allocation, then nmsrs = size.
LegacyCtor(k, n) ==
    {[b EXCEPT !.count = n] : b \in Uninitialised(BufferUnits(k, n), n)}

\* T x(n) with a record of include/vmm/kvm/types.hpp.
LegacyConstruct(r, n) ==
    /\ fault = "none" /\ ~recs[r].live
    /\ \E b \in LegacyCtor(kind, n) :
          LET a == Alloc(heap)
          IN  /\ heap' = [heap EXCEPT ![a] = b]
              /\ recs' = [recs EXCEPT ![r] = [live |-> TRUE, ptr |-> a]]
    /\ famLast' = FamRecord("legacy_ctor", r, r, n, <<>>)
    /\ copied' = [copied EXCEPT ![r] = FALSE]
    /\ UNCHANGED <<kind, fault>>

LegacyInit == FamInit /\ kind \in LegacyKinds

LegacyNext ==
    \/ \E r \in Recs, n \in 0..MaxCount : LegacyConstruct(r, n) /\ UNCHANGED nodeVars
    \/ \E r \in Recs, i \in 0..(MaxCount - 1), v \in Vals :
          FamWrite(r, i, v) /\ UNCHANGED nodeVars
    \/ \E r \in Recs : FamDestroy(r) /\ UNCHANGED nodeVars

LegacySpec == LegacyInit /\ [][LegacyNext]_vars

(***************************************************************************)
(* The kernel: the descriptor table and the replies of ioctl and close.    *)
(***************************************************************************)
\* Two root nodes and two machine nodes.
SysIds == {"k1", "k2"}
VmIds == {"m1", "m2"}
NodeIds == SysIds \cup VmIds
\* Two processor nodes and one device node.
VcpuIds == {"v1", "v2"}
DevIds == {"d1"}

Fds == 1..MaxFds
\* The descriptor a moved-from handle holds.
NoFd == -1
RetVals == 0..MaxRet

\* What the platform call reports: its return value and, when that is
\* negative, errno.
Reply(ret, errno) == [ret |-> ret, errno |-> errno]
Failed(errno) == Reply(-1, errno)

\* What an operation hands its caller: a value, or a thrown
\* std::system_error carrying errno.
NoValue == -1
Ok(v) == [ok |-> TRUE, val |-> v, code |-> "none"]
Err(code) == [ok |-> FALSE, val |-> NoValue, code |-> code]

\* The lowest descriptor not open: the one open and the creation requests
\* return.
FreeFds == {f \in Fds : fdtable[f] = "closed"}
LowestFree == CHOOSE f \in FreeFds : \A g \in FreeFds : f <= g

\* The state blocks of a processor that are read and written whole, and the
\* request that reads and the one that writes each.
StateBlocks == {"mp_state", "vcpu_events", "xsave", "xcrs", "debug_regs"}
StateGet(b) ==
    CASE b = "mp_state" -> "KVM_GET_MP_STATE"
      [] b = "vcpu_events" -> "KVM_GET_VCPU_EVENTS"
      [] b = "xsave" -> "KVM_GET_XSAVE"
      [] b = "xcrs" -> "KVM_GET_XCRS"
      [] b = "debug_regs" -> "KVM_GET_DEBUGREGS"
StateSet(b) ==
    CASE b = "mp_state" -> "KVM_SET_MP_STATE"
      [] b = "vcpu_events" -> "KVM_SET_VCPU_EVENTS"
      [] b = "xsave" -> "KVM_SET_XSAVE"
      [] b = "xcrs" -> "KVM_SET_XCRS"
      [] b = "debug_regs" -> "KVM_SET_DEBUGREGS"
StateRequests == {StateGet(b) : b \in StateBlocks} \cup {StateSet(b) : b \in StateBlocks}
\* The values a state block holds, and the ones callers pass: the kernel
\* rejects a block it finds invalid.
StateVals == {0, 1}
StateArgs == {0, 1, 2}

\* The kinds of file that implement each request.
Supports(req) ==
    CASE req = "KVM_GET_API_VERSION" -> {"kvm"}
      [] req = "KVM_GET_VCPU_MMAP_SIZE" -> {"kvm"}
      [] req = "KVM_CREATE_VM" -> {"kvm"}
      [] req = "KVM_GET_MSR_INDEX_LIST" -> {"kvm"}
      [] req = "KVM_GET_MSR_FEATURE_INDEX_LIST" -> {"kvm"}
      [] req = "KVM_GET_SUPPORTED_CPUID" -> {"kvm"}
      [] req = "KVM_CHECK_EXTENSION" -> {"kvm", "vm"}
      [] req = "KVM_CREATE_VCPU" -> {"vm"}
      [] req = "KVM_CREATE_DEVICE" -> {"vm"}
      [] req = "KVM_SET_BOOT_CPU_ID" -> {"vm"}
      [] req = "KVM_SET_USER_MEMORY_REGION" -> {"vm"}
      [] req = "KVM_GET_REGS" -> {"vcpu"}
      [] req = "KVM_SET_REGS" -> {"vcpu"}
      [] req = "KVM_GET_MSRS" -> {"kvm", "vcpu"}
      [] req = "KVM_SET_MSRS" -> {"vcpu"}
      [] req \in StateRequests -> {"vcpu"}
      [] req = "KVM_IOEVENTFD" -> {"vm"}

\* The replies ::ioctl(fd, req, ...) can give in the current state: EBADF on
\* a descriptor that is not open, ENOTTY on a file that does not implement
\* the request; otherwise the kernel serves the request or rejects it.
KernelReplies(fd, req) ==
    IF fd \notin Fds \/ fdtable[fd] = "closed" THEN {Failed("EBADF")}
    ELSE IF fdtable[fd] \notin Supports(req) THEN {Failed("ENOTTY")}
    ELSE IF req = "KVM_CREATE_VM"
         THEN {Failed("EINVAL")} \cup
              (IF FreeFds = {} THEN {Failed("EMFILE")} ELSE {Reply(LowestFree, "none")})
    ELSE {Failed("EINVAL")} \cup {Reply(v, "none") : v \in RetVals}

\* The replies every request gets on a descriptor that is not open or on a
\* file that does not implement it; none when the request reaches its file.
FdReplies(fd, req) ==
    IF fd \notin Fds \/ fdtable[fd] = "closed" THEN {Failed("EBADF")}
    ELSE IF fdtable[fd] \notin Supports(req) THEN {Failed("ENOTTY")}
    ELSE {}

\* The default capacities of the lists an enumeration fills.
MAX_IO_MSRS == 256
MAX_IO_MSRS_FEATURES == 22
MAX_CPUID_ENTRIES == 80
DefaultCapacity(k) ==
    CASE k = "MsrIndexList" -> MAX_IO_MSRS
      [] k = "MsrFeatureList" -> MAX_IO_MSRS_FEATURES
      [] k = "CpuidList" -> MAX_CPUID_ENTRIES
\* MsrIndexList(), MsrFeatureList(), CpuidList(): the counted constructor
\* with the default capacity.
DefaultCtor(k) == FamCtor(k, DefaultCapacity(k))

\* The numbers of entries a kernel can have to report, around each capacity.
EnumCounts(k) ==
    {0, 1, DefaultCapacity(k) - 1, DefaultCapacity(k), DefaultCapacity(k) + 1}
\* The enumeration requests: E2BIG when the kernel has more entries than the
\* count field of the list says it can take.
EnumReplies(fd, req, list, n) ==
    IF FdReplies(fd, req) # {} THEN FdReplies(fd, req)
    ELSE IF n > list.count THEN {Failed("E2BIG")}
    ELSE {Reply(0, "none")}
\* The list after the request: a served request leaves the n entries and
\* their number in it. A refused KVM_GET_MSR_(FEATURE_)INDEX_LIST has
\* already written the number it would need to the count field.
EnumFilled(req, list, n, r) ==
    IF r.ret >= 0
    THEN [list EXCEPT !.count = n,
                      !.ents = [i \in DOMAIN list.ents |->
                                   IF i <= n THEN 1 ELSE list.ents[i]]]
    ELSE IF r.errno = "E2BIG" /\ req # "KVM_GET_SUPPORTED_CPUID"
    THEN [list EXCEPT !.count = n]
    ELSE list

\* The processor ordinals the kernel accepts, and the ones callers pass.
Ordinals == {0, 1}
OrdinalArgs == {0, 1, 2}
\* The memory slots the kernel has, and the ones callers pass.
Slots == {0}
SlotArgs == {0, 1}
\* memory_size of a region: 0 removes the slot.
SizeArgs == {0, 1}

\* KVM_CREATE_VCPU: EINVAL for an ordinal out of range, EEXIST for one in
\* use, otherwise the descriptor of the new processor.
CreateVcpuReplies(fd, id) ==
    IF FdReplies(fd, "KVM_CREATE_VCPU") # {} THEN FdReplies(fd, "KVM_CREATE_VCPU")
    ELSE IF id \notin Ordinals THEN {Failed("EINVAL")}
    ELSE IF id \in kvmvm[fd].created THEN {Failed("EEXIST")}
    ELSE IF FreeFds = {} THEN {Failed("EMFILE")}
    ELSE {Reply(LowestFree, "none")}

\* KVM_SET_BOOT_CPU_ID: EBUSY once the machine has a processor.
SetBootCpuReplies(fd, id) ==
    IF FdReplies(fd, "KVM_SET_BOOT_CPU_ID") # {}
    THEN FdReplies(fd, "KVM_SET_BOOT_CPU_ID")
    ELSE IF kvmvm[fd].created # {} THEN {Failed("EBUSY")}
    ELSE IF id \notin Ordinals THEN {Failed("EINVAL")}
    ELSE {Reply(0, "none")}

\* KVM_SET_USER_MEMORY_REGION: EINVAL for a slot out of range and for the
\* removal (memory_bytes = 0) of a slot that is not registered; a region
\* with memory may also be rejected (misaligned, overlapping).
MemoryRegionReplies(fd, slot, bytes) ==
    IF FdReplies(fd, "KVM_SET_USER_MEMORY_REGION") # {}
    THEN FdReplies(fd, "KVM_SET_USER_MEMORY_REGION")
    ELSE IF slot \notin Slots THEN {Failed("EINVAL")}
    ELSE IF bytes = 0 /\ slot \notin kvmvm[fd].slots THEN {Failed("EINVAL")}
    ELSE IF bytes = 0 THEN {Reply(0, "none")}
    ELSE {Reply(0, "none"), Failed("EINVAL")}
\* The machine's slots after the kernel accepted the region.
MemoryRegionSet(slots, slot, bytes) ==
    IF bytes = 0 THEN slots \ {slot} ELSE slots \cup {slot}

\* The model-specific registers callers name; the kernel knows the first
\* two and stops an exchange at an entry that names another.
MsrIndexArgs == {1, 2, 3}
MsrSupported == {1, 2}
\* The entries of a register-value list: kvm_msr_entry{index, reserved, data}.
MsrEntries == [index : MsrIndexArgs, data : Vals]
MsrLists == SeqsUpTo(MsrEntries, MaxCount)
\* The lists handed to a read: kvm_msr_entry{index}, data zero.
MsrQueries == SeqsUpTo([index : MsrIndexArgs, data : {0}], MaxCount)

\* KVM_GET_MSRS / KVM_SET_MSRS walk the entries in order and stop at the
\* first one the kernel cannot serve; the result is the number served.
RECURSIVE Processed(_, _)
Processed(list, i) ==
    IF i > Len(list) \/ list[i].index \notin MsrSupported THEN i - 1
    ELSE Processed(list, i + 1)
\* The registers after the first n entries were written, in order.
RECURSIVE WriteMsrs(_, _, _)
WriteMsrs(regs, list, n) ==
    IF n = 0 THEN regs
    ELSE [WriteMsrs(regs, list, n - 1) EXCEPT ![list[n].index] = list[n].data]
\* The list after the first n entries were read into it.
ReadMsrs(regs, list, n) ==
    [i \in 1..Len(list) |->
        IF i <= n THEN [index |-> list[i].index, data |-> regs[list[i].index]]
        ELSE list[i]]
\* The values of the feature registers KVM_GET_MSRS reads on /dev/kvm.
FeatureMsrs == [i \in MsrSupported |-> 1]
MsrReplies(fd, req, list) ==
    IF FdReplies(fd, req) # {} THEN FdReplies(fd, req)
    ELSE {Reply(Processed(list, 1), "none")}

\* The replies ::close(fd) can give. Linux releases an open descriptor
\* whether or not close reports an error.
CloseReplies(fd) ==
    IF fd \notin Fds \/ fdtable[fd] = "closed" THEN {Failed("EBADF")}
    ELSE {Reply(0, "none"), Failed("EIO")}
Released(fd) ==
    IF fd \in Fds THEN [fdtable EXCEPT ![fd] = "closed"] ELSE fdtable

(***************************************************************************)
(* utility.hpp, system.cpp, vm.cpp as functions of the kernel's replies.   *)
(***************************************************************************)
\* utility::ioctl: throws on a negative result, returns it otherwise.
utility_ioctl_bad(reply) ==
    IF reply.ret <= 0 THEN Err(reply.errno) ELSE Ok(reply.ret)
utility_ioctl(reply) ==
    IF reply.ret < 0 THEN Err(reply.errno) ELSE Ok(reply.ret)

\* utility::close: throws when ::close reports a failure.
utility_close(reply) ==
    IF reply.ret < 0 THEN Err(reply.errno) ELSE Ok(0)

\* KvmFd::ioctl: the request through the descriptor the handle owns.
KvmFd_ioctl(reply) == utility_ioctl(reply)

system_api_version(r) == utility_ioctl(r)
system_vcpu_mmap_size(r) == utility_ioctl(r)
system_create_vm(r) == utility_ioctl(r)

\* system::vm: mmap_size = vcpu_mmap_size(); fd = create_vm();
\* return vm{fd, mmap_size}. The value is the pair the vm is built from.
\* system::msr_index_list, msr_feature_list (and supported_cpuids): the
\* list the kernel filled is returned; a failed request throws.
system_msr_list_bad(r, list) == Ok(list)
system_msr_list(r, list) == IF utility_ioctl(r).ok THEN Ok(list) ELSE utility_ioctl(r)

system_vm_late(r1, r2) ==
    LET mmap_size == system_vcpu_mmap_size(r1)
        fd == system_create_vm(r2)
    IN  IF ~fd.ok THEN fd
        ELSE IF mmap_size.val = 0 THEN Err("EINVAL")
        ELSE Ok(fd.val)
system_vm_unchecked(r1, r2) ==
    LET mmap_size == system_vcpu_mmap_size(r1)
        fd == system_create_vm(r2)
    IN  IF ~mmap_size.ok THEN mmap_size ELSE Ok(fd.val)
system_vm(r1, r2) ==
    LET mmap_size == system_vcpu_mmap_size(r1)
        fd == system_create_vm(r2)
    IN  IF ~mmap_size.ok THEN mmap_size
        ELSE IF ~fd.ok THEN fd
        ELSE Ok(fd.val)

\* What ~system does with the outcome of utility::close: the catch block
\* swallows the std::system_error.
system_dtor_bad(closed) == closed
system_dtor(closed) == Ok(0)

vm_check_extension(r) == KvmFd_ioctl(r)

\* vm::vcpu: the processor is built from the result of KVM_CREATE_VCPU.
vcpu_ctor(fd) == [live |-> TRUE, m_fd |-> fd]
vm_vcpu_bad(m_fd, r) == IF KvmFd_ioctl(r).ok THEN Ok(m_fd) ELSE KvmFd_ioctl(r)
vm_vcpu(m_fd, r) == KvmFd_ioctl(r)

\* vm::device: dev = kvm_create_device{.type = type, .flags = flags}, its fd
\* member value-initialised; the device is built from dev.
ZeroFd == 0
vm_device(type, flags) == [type |-> type, flags |-> flags, fd |-> ZeroFd]
\* device::device(dev): owns dev.fd.
device_ctor(dev) == [live |-> TRUE, m_fd |-> dev.fd]

\* The processor's registers, read and written through its own descriptor.
vcpu_regs(r) == KvmFd_ioctl(r)
vcpu_set_regs(r) == IF KvmFd_ioctl(r).ok THEN Ok(0) ELSE KvmFd_ioctl(r)

\* The state blocks (mp_state, vcpu_events, xsave, xcrs, debug_regs): the
\* getter returns the block the kernel filled, the setter hands the block
\* to the kernel and returns nothing.
vcpu_state(r, block) == IF KvmFd_ioctl(r).ok THEN Ok(block) ELSE KvmFd_ioctl(r)
vcpu_set_state_bad(r) == IF KvmFd_ioctl(r).ok THEN Err("EINVAL") ELSE KvmFd_ioctl(r)
vcpu_set_state(r) == IF KvmFd_ioctl(r).ok THEN Ok(0) ELSE KvmFd_ioctl(r)

\* The address spaces of an I/O event, and the flag bits of kvm_ioeventfd.
IoEventAddress == {"Pio", "Mmio"}
IoEventFlags == {"DATAMATCH", "PIO", "DEASSIGN"}
\* sizeof(uint64_t), the len of every kvm_ioeventfd the machine builds.
SizeofU64 == 8

\* The kvm_ioeventfd both operations build, from the flags they start with.
kvm_ioeventfd(T, eventfd, addr, datamatch, flags) ==
    [datamatch |-> datamatch, addr |-> addr, len |-> SizeofU64, fd |-> eventfd,
     flags |-> flags \cup (IF datamatch > 0 THEN {"DATAMATCH"} ELSE {})
                     \cup (IF T = "Pio" THEN {"PIO"} ELSE {})]
\* vm::attach_ioevent<T>: flags = 0, then the data-match and port bits.
vm_attach_ioevent_bad(T, eventfd, addr, datamatch) ==
    [kvm_ioeventfd(T, eventfd, addr, datamatch, {}) EXCEPT
        !.flags = @ \cup (IF eventfd > 0 THEN {"DATAMATCH"} ELSE {})]
vm_attach_ioevent(T, eventfd, addr, datamatch) ==
    kvm_ioeventfd(T, eventfd, addr, datamatch, {})
\* vm::detach_ioevent<T>: flags = KVM_IOEVENTFD_FLAG_DEASSIGN, then the same.
vm_detach_ioevent(T, eventfd, addr, datamatch) ==
    kvm_ioeventfd(T, eventfd, addr, datamatch, {"DEASSIGN"})

\* vm::set_bsp and vm::memslot: the request, its result dropped.
vm_set_bsp_bad(r) == Ok(0)
vm_set_bsp(r) == IF KvmFd_ioctl(r).ok THEN Ok(0) ELSE KvmFd_ioctl(r)
vm_memslot_bad(r) == Ok(0)
vm_memslot(r) == IF KvmFd_ioctl(r).ok THEN Ok(0) ELSE KvmFd_ioctl(r)

\* system::msrs: return utils::ioctl(fd_, KVM_GET_MSRS, msrs.get()).
system_msrs_bad(msrs, r) ==
    IF utility_ioctl(r).ok /\ r.ret < Len(msrs) THEN Err("EIO") ELSE utility_ioctl(r)
system_msrs(msrs, r) == utility_ioctl(r)
\* vcpu::get_msrs / vcpu::set_msrs: the same exchange on the processor.
vcpu_get_msrs_bad(msrs, r) ==
    IF KvmFd_ioctl(r).ok /\ r.ret > 0 THEN Ok(r.ret - 1) ELSE KvmFd_ioctl(r)
vcpu_get_msrs(msrs, r) == KvmFd_ioctl(r)
vcpu_set_msrs(msrs, r) == KvmFd_ioctl(r)

\* The fallbacks of num_vcpus and num_memslots.
DefaultVcpus == 4
DefaultMemslots == 32

vm_num_vcpus_bad(r) ==
    LET ret == vm_check_extension(r)
    IN  IF ret.ok /\ ret.val > 0 THEN ret ELSE Ok(DefaultVcpus)
vm_num_vcpus(r) ==
    LET ret == vm_check_extension(r)
    IN  IF ~ret.ok THEN ret
        ELSE IF ret.val > 0 THEN ret ELSE Ok(DefaultVcpus)

\* max_vcpus asks for KVM_CAP_MAX_VCPUS and, when that is 0, calls
\* num_vcpus, which issues a second request.
vm_max_vcpus_again(r1) ==
    LET ret == vm_check_extension(r1) IN ret.ok /\ ~(ret.val > 0)
vm_max_vcpus(r1, r2) ==
    LET ret == vm_check_extension(r1)
    IN  IF ~ret.ok THEN ret
        ELSE IF ret.val > 0 THEN ret ELSE vm_num_vcpus(r2)

vm_num_memslots(r) ==
    LET ret == vm_check_extension(r)
    IN  IF ~ret.ok THEN ret
        ELSE IF ret.val > 0 THEN ret ELSE Ok(DefaultMemslots)

(***************************************************************************)
(* The nodes.                                                              *)
(***************************************************************************)
NoSys == [live |-> FALSE, fd_ |-> NoFd, closed_ |-> FALSE]
NoVm == [live |-> FALSE, m_fd |-> NoFd, m_mmap_size |-> 0]

\* vm(int fd, std::size_t mmap_size) : m_fd{fd}, m_mmap_size{mmap_size}.
vm_ctor_bad(fd, mmap_size) == [live |-> TRUE, m_fd |-> fd, m_mmap_size |-> fd]
vm_ctor(fd, mmap_size) == [live |-> TRUE, m_fd |-> fd, m_mmap_size |-> mmap_size]

\* What the kernel keeps for a machine it has just created: no memory slot,
\* no processor. (The boot processor's ordinal is kept too; no operation of
\* the library reads it back.)
NewKvm == [slots |-> {}, created |-> {}]
\* What the kernel keeps for a processor: its registers and its
\* model-specific registers.
NewKvcpu ==
    [regs |-> 0, msrs |-> [i \in MsrSupported |-> 0],
     state |-> [b \in StateBlocks |-> 0]]

\* An operation recorded with the argument it was called with.
OpOn(op, node, arg, replies, res) ==
    [op |-> op, node |-> node, arg |-> arg, replies |-> replies, res |-> res]

NoVcpu == [live |-> FALSE, m_fd |-> NoFd]
NoDev == [live |-> FALSE, m_fd |-> NoFd]

Op(op, node, replies, res) ==
    [op |-> op, node |-> node, replies |-> replies, res |-> res]

\* system k: the constructor opens /dev/kvm and owns the descriptor.
SysConstruct(k) ==
    /\ ~sys[k].live
    /\ IF FreeFds = {}
       THEN /\ last' = Op("system", k, <<Failed("EMFILE")>>, Err("EMFILE"))
            /\ UNCHANGED <<fdtable, sys, vms, closes>>
       ELSE /\ fdtable' = [fdtable EXCEPT ![LowestFree] = "kvm"]
            /\ sys' = [sys EXCEPT ![k] =
                          [live |-> TRUE, fd_ |-> LowestFree, closed_ |-> FALSE]]
            /\ closes' = [closes EXCEPT ![k] = 0]
            /\ last' = Op("system", k, <<Reply(LowestFree, "none")>>, Ok(0))
            /\ UNCHANGED vms
    /\ UNCHANGED machVars

\* A root operation that issues one request and returns its result.
SysRequest(k, op, req) ==
    /\ sys[k].live
    /\ \E r \in KernelReplies(sys[k].fd_, req) :
          last' = Op(op, k, <<r>>, utility_ioctl(r))
    /\ UNCHANGED <<fdtable, sys, vms, closes>>
    /\ UNCHANGED machVars

SysApiVersion(k) == SysRequest(k, "api_version", "KVM_GET_API_VERSION")
SysVcpuMmapSize(k) == SysRequest(k, "vcpu_mmap_size", "KVM_GET_VCPU_MMAP_SIZE")

\* msr_index_list / msr_feature_list: a local list of the default capacity
\* is handed to a kernel that has n entries to report, and returned.
SysMsrList(k, op, req, ty) ==
    /\ sys[k].live
    /\ \E n \in EnumCounts(ty) :
          \E r \in EnumReplies(sys[k].fd_, req, DefaultCtor(ty), n) :
             last' = OpOn(op, k, [kind |-> ty, entries |-> n], <<r>>,
                          system_msr_list(r, EnumFilled(req, DefaultCtor(ty), n, r)))
    /\ UNCHANGED <<fdtable, sys, vms, closes>>
    /\ UNCHANGED machVars

SysMsrIndexList(k) ==
    SysMsrList(k, "msr_index_list", "KVM_GET_MSR_INDEX_LIST", "MsrIndexList")
SysMsrFeatureList(k) ==
    SysMsrList(k, "msr_feature_list", "KVM_GET_MSR_FEATURE_INDEX_LIST",
               "MsrFeatureList")
\* supported_cpuids: the same with a CpuidList and KVM_GET_SUPPORTED_CPUID.
SysSupportedCpuids(k) ==
    SysMsrList(k, "supported_cpuids", "KVM_GET_SUPPORTED_CPUID", "CpuidList")

\* m = k.vm(): the size query, then the creation request, then the vm
\* node is built from the two results.
SysVm(k, m) ==
    /\ sys[k].live /\ ~vms[m].live
    /\ \E r1 \in KernelReplies(sys[k].fd_, "KVM_GET_VCPU_MMAP_SIZE") :
          IF ~system_vcpu_mmap_size(r1).ok
          THEN /\ last' = OpOn("vm", k,
                               [requests |-> <<"KVM_GET_VCPU_MMAP_SIZE">>, made |-> m],
                               <<r1>>, system_vm(r1, r1))
               /\ UNCHANGED <<fdtable, sys, vms, closes, kvmvm, madeVcpu>>
          ELSE \E r2 \in KernelReplies(sys[k].fd_, "KVM_CREATE_VM") :
                  LET res == system_vm(r1, r2)
                  IN  /\ last' = OpOn("vm", k,
                                      [requests |-> <<"KVM_GET_VCPU_MMAP_SIZE",
                                                      "KVM_CREATE_VM">>,
                                       made |-> m],
                                      <<r1, r2>>, res)
                      /\ IF r2.ret >= 0
                         THEN /\ fdtable' = [fdtable EXCEPT ![r2.ret] = "vm"]
                              /\ kvmvm' = [kvmvm EXCEPT ![r2.ret] = NewKvm]
                              /\ madeVcpu' = [madeVcpu EXCEPT ![r2.ret] = FALSE]
                         ELSE UNCHANGED <<fdtable, kvmvm, madeVcpu>>
                      /\ vms' = IF res.ok
                                THEN [vms EXCEPT ![m] =
                                         vm_ctor(res.val, system_vcpu_mmap_size(r1).val)]
                                ELSE vms
                      /\ UNCHANGED <<sys, closes>>
    /\ UNCHANGED <<vcpus, devs, kvcpu>>

\* k.close(): utils::close(fd_); closed_ = true.
SysClose(k) ==
    /\ sys[k].live /\ closes[k] < MaxCloseCalls
    /\ \E r \in CloseReplies(sys[k].fd_) :
          LET res == utility_close(r)
          IN  /\ fdtable' = Released(sys[k].fd_)
              /\ closes' = [closes EXCEPT ![k] = @ + 1]
              /\ sys' = IF res.ok THEN [sys EXCEPT ![k].closed_ = TRUE] ELSE sys
              /\ last' = Op("close", k, <<r>>, res)
    /\ UNCHANGED vms
    /\ UNCHANGED machVars

\* ~system: if (!closed_) try { utils::close(fd_); } catch (...) {}.
SysDestroy(k) ==
    /\ sys[k].live
    /\ IF sys[k].closed_
       THEN /\ last' = Op("~system", k, <<>>, Ok(0))
            /\ UNCHANGED <<fdtable, closes>>
       ELSE \E r \in CloseReplies(sys[k].fd_) :
               /\ fdtable' = Released(sys[k].fd_)
               /\ closes' = [closes EXCEPT ![k] = @ + 1]
               /\ last' = Op("~system", k, <<r>>, system_dtor(utility_close(r)))
    /\ sys' = [sys EXCEPT ![k] = NoSys]
    /\ UNCHANGED vms
    /\ UNCHANGED machVars

\* check_extension: one request through the machine's handle.
VmCheckExtension(m) ==
    /\ vms[m].live
    /\ \E r \in KernelReplies(vms[m].m_fd, "KVM_CHECK_EXTENSION") :
          last' = Op("check_extension", m, <<r>>, vm_check_extension(r))
    /\ UNCHANGED <<fdtable, sys, vms, closes>>
    /\ UNCHANGED machVars

\* num_vcpus: check_extension(KVM_CAP_NR_VCPUS), 4 when that is 0.
VmNumVcpus(m) ==
    /\ vms[m].live
    /\ \E r \in KernelReplies(vms[m].m_fd, "KVM_CHECK_EXTENSION") :
          last' = Op("num_vcpus", m, <<r>>, vm_num_vcpus(r))
    /\ UNCHANGED <<fdtable, sys, vms, closes>>
    /\ UNCHANGED machVars

\* num_memslots: check_extension(KVM_CAP_NR_MEMSLOTS), 32 when that is 0.
VmNumMemslots(m) ==
    /\ vms[m].live
    /\ \E r \in KernelReplies(vms[m].m_fd, "KVM_CHECK_EXTENSION") :
          last' = Op("num_memslots", m, <<r>>, vm_num_memslots(r))
    /\ UNCHANGED <<fdtable, sys, vms, closes>>
    /\ UNCHANGED machVars

VmMaxVcpus(m) ==
    /\ vms[m].live
    /\ \E r1 \in KernelReplies(vms[m].m_fd, "KVM_CHECK_EXTENSION") :
          IF vm_max_vcpus_again(r1)
          THEN \E r2 \in KernelReplies(vms[m].m_fd, "KVM_CHECK_EXTENSION") :
                  last' = Op("max_vcpus", m, <<r1, r2>>, vm_max_vcpus(r1, r2))
          ELSE last' = Op("max_vcpus", m, <<r1>>, vm_max_vcpus(r1, r1))
    /\ UNCHANGED <<fdtable, sys, vms, closes>>
    /\ UNCHANGED machVars

\* mmap_size: return m_mmap_size, no request.
VmMmapSize(m) ==
    /\ vms[m].live
    /\ last' = Op("mmap_size", m, <<>>, Ok(vms[m].m_mmap_size))
    /\ UNCHANGED <<fdtable, sys, vms, closes, machVars>>

\* vm.num_vcpus() and then vm.max_vcpus() on a kernel that reports nr for
\* KVM_CAP_NR_VCPUS and max for KVM_CAP_MAX_VCPUS; the value is the pair of
\* results.
VmVcpuLimits(m, nr, max) ==
    /\ vms[m].live
    /\ FdReplies(vms[m].m_fd, "KVM_CHECK_EXTENSION") = {}
    /\ LET rnr == Reply(nr, "none")
           rmax == Reply(max, "none")
       IN  last' = OpOn("vcpu_limits", m, [nr |-> nr, max |-> max],
                        IF vm_max_vcpus_again(rmax) THEN <<rnr, rmax, rnr>>
                        ELSE <<rnr, rmax>>,
                        Ok([num_vcpus |-> vm_num_vcpus(rnr).val,
                            max_vcpus |-> vm_max_vcpus(rmax, rnr).val]))
    /\ UNCHANGED <<fdtable, sys, vms, closes, machVars>>

\* v = m.vcpu(id).
VmVcpu(m, v, id) ==
    /\ vms[m].live /\ ~vcpus[v].live
    /\ \E r \in CreateVcpuReplies(vms[m].m_fd, id) :
          LET res == vm_vcpu(vms[m].m_fd, r)
          IN  /\ last' = Op("vcpu", m, <<r>>, res)
              /\ IF r.ret >= 0
                 THEN /\ fdtable' = [fdtable EXCEPT ![r.ret] = "vcpu"]
                      /\ kvmvm' = [kvmvm EXCEPT ![vms[m].m_fd].created = @ \cup {id}]
                      /\ kvcpu' = [kvcpu EXCEPT ![r.ret] = NewKvcpu]
                      /\ madeVcpu' = [madeVcpu EXCEPT ![vms[m].m_fd] = TRUE]
                 ELSE UNCHANGED <<fdtable, kvmvm, kvcpu, madeVcpu>>
              /\ vcpus' = IF res.ok THEN [vcpus EXCEPT ![v] = vcpu_ctor(res.val)]
                          ELSE vcpus
    /\ UNCHANGED <<sys, vms, closes, devs>>

\* m.set_bsp(id).
VmSetBsp(m, id) ==
    /\ vms[m].live
    /\ \E r \in SetBootCpuReplies(vms[m].m_fd, id) :
          last' = Op("set_bsp", m, <<r>>, vm_set_bsp(r))
    /\ UNCHANGED <<fdtable, sys, vms, closes, machVars>>

\* m.memslot(region), region.slot = slot and region.memory_size = bytes.
VmMemslot(m, slot, bytes) ==
    /\ vms[m].live
    /\ \E r \in MemoryRegionReplies(vms[m].m_fd, slot, bytes) :
          /\ last' = OpOn("memslot", m, [slot |-> slot, memory_size |-> bytes],
                          <<r>>, vm_memslot(r))
          /\ kvmvm' = IF r.ret >= 0
                      THEN [kvmvm EXCEPT ![vms[m].m_fd].slots =
                                            MemoryRegionSet(@, slot, bytes)]
                      ELSE kvmvm
    /\ UNCHANGED <<fdtable, sys, vms, closes, vcpus, devs, kvcpu, madeVcpu>>

\* d = m.device(type, flags).
DevTypes == {"KVM_DEV_TYPE_VFIO", "unknown"}
VmDevice(m, d, type, flags) ==
    /\ vms[m].live
    /\ devs' = [devs EXCEPT ![d] = device_ctor(vm_device(type, flags))]
    /\ last' = Op("device", m, <<>>, Ok(device_ctor(vm_device(type, flags)).m_fd))
    /\ UNCHANGED <<fdtable, sys, vms, closes, vcpus, kvmvm, kvcpu, madeVcpu>>

\* The event descriptors, addresses and data-match values callers pass.
EventFdArgs == {0, 1}
AddrArgs == {0, 1}
DatamatchArgs == {0, 1, 2}

\* m.attach_ioevent<T>(eventfd, addr, datamatch) and m.detach_ioevent<T>(...):
\* the argument is built and handed to KVM_IOEVENTFD, the result dropped.
VmIoevent(m, op, T, eventfd, addr, datamatch) ==
    /\ vms[m].live
    /\ \E r \in KernelReplies(vms[m].m_fd, "KVM_IOEVENTFD") :
          last' = OpOn(op, m,
                       [T |-> T, eventfd |-> eventfd, addr |-> addr,
                        datamatch |-> datamatch,
                        ioeventfd |->
                            IF op = "attach_ioevent"
                            THEN vm_attach_ioevent(T, eventfd, addr, datamatch)
                            ELSE vm_detach_ioevent(T, eventfd, addr, datamatch)],
                       <<r>>,
                       IF KvmFd_ioctl(r).ok THEN Ok(0) ELSE KvmFd_ioctl(r))
    /\ UNCHANGED <<fdtable, sys, vms, closes, machVars>>

VmAttachIoevent(m, T, eventfd, addr, datamatch) ==
    VmIoevent(m, "attach_ioevent", T, eventfd, addr, datamatch)
VmDetachIoevent(m, T, eventfd, addr, datamatch) ==
    VmIoevent(m, "detach_ioevent", T, eventfd, addr, datamatch)

\* The values a register holds.
RegVals == {0, 1}

\* v.set_regs(val).
VcpuSetRegs(v, val) ==
    /\ vcpus[v].live
    /\ \E r \in (IF FdReplies(vcpus[v].m_fd, "KVM_SET_REGS") # {}
                  THEN FdReplies(vcpus[v].m_fd, "KVM_SET_REGS")
                  ELSE {Reply(0, "none")}) :
          /\ last' = Op("set_regs", v, <<r>>, vcpu_set_regs(r))
          /\ kvcpu' = IF r.ret >= 0 THEN [kvcpu EXCEPT ![vcpus[v].m_fd].regs = val]
                      ELSE kvcpu
    /\ UNCHANGED <<fdtable, sys, vms, closes, vcpus, devs, kvmvm, madeVcpu>>

\* v.regs(): the value is the registers the kernel wrote to the result.
VcpuRegs(v) ==
    /\ vcpus[v].live
    /\ \E r \in (IF FdReplies(vcpus[v].m_fd, "KVM_GET_REGS") # {}
                  THEN FdReplies(vcpus[v].m_fd, "KVM_GET_REGS")
                  ELSE {Reply(0, "none")}) :
          last' = Op("regs", v, <<r>>,
                     IF vcpu_regs(r).ok THEN Ok(kvcpu[vcpus[v].m_fd].regs)
                     ELSE vcpu_regs(r))
    /\ UNCHANGED <<fdtable, sys, vms, closes, machVars>>

\* KVM_SET_<block>: EINVAL for a block the kernel finds invalid.
SetStateReplies(fd, b, val) ==
    IF FdReplies(fd, StateSet(b)) # {} THEN FdReplies(fd, StateSet(b))
    ELSE IF val \notin StateVals THEN {Failed("EINVAL")}
    ELSE {Reply(0, "none")}

\* An operation recorded with its argument and with what the operation
\* before it, on the same node and block, read or wrote.
OpAfter(op, node, arg, after, replies, res) ==
    [op |-> op, node |-> node, arg |-> arg, after |-> after,
     replies |-> replies, res |-> res]

\* The value the operation before this one read from block b of v.
JustRead(v, b) ==
    IF /\ last.op = "state" /\ last.node = v /\ last.arg.block = b
       /\ last.res.ok
    THEN last.res.val ELSE NoValue
\* The value the operation before this one wrote to block b of v, when it
\* was the value read just before that.
JustWrittenBack(v, b) ==
    IF /\ last.op = "set_state" /\ last.node = v /\ last.arg.block = b
       /\ last.res.ok /\ last.after = last.arg.val
    THEN last.arg.val ELSE NoValue

\* v.set_mp_state(val), v.set_vcpu_events(val), ...: block b is written.
VcpuSetState(v, b, val) ==
    /\ vcpus[v].live
    /\ \E r \in SetStateReplies(vcpus[v].m_fd, b, val) :
          /\ last' = OpAfter("set_state", v, [block |-> b, val |-> val],
                             JustRead(v, b), <<r>>, vcpu_set_state(r))
          /\ kvcpu' = IF r.ret >= 0
                      THEN [kvcpu EXCEPT ![vcpus[v].m_fd].state[b] = val]
                      ELSE kvcpu
    /\ UNCHANGED <<fdtable, sys, vms, closes, vcpus, devs, kvmvm, madeVcpu>>

\* v.mp_state(), v.vcpu_events(), ...: block b is read.
VcpuState(v, b) ==
    /\ vcpus[v].live
    /\ \E r \in (IF FdReplies(vcpus[v].m_fd, StateGet(b)) # {}
                  THEN FdReplies(vcpus[v].m_fd, StateGet(b))
                  ELSE {Reply(0, "none")}) :
          last' = OpAfter("state", v, [block |-> b], JustWrittenBack(v, b), <<r>>,
                          vcpu_state(r, kvcpu[vcpus[v].m_fd].state[b]))
    /\ UNCHANGED <<fdtable, sys, vms, closes, machVars>>

\* ~vcpu: the handle releases the descriptor it owns, failures swallowed.
\* The processor stays in its machine (created is unchanged); its registers
\* can no longer be reached and are forgotten here.
VcpuDestroy(v) ==
    /\ vcpus[v].live
    /\ \E r \in CloseReplies(vcpus[v].m_fd) :
          /\ fdtable' = Released(vcpus[v].m_fd)
          /\ last' = Op("~vcpu", v, <<r>>, Ok(0))
    /\ vcpus' = [vcpus EXCEPT ![v] = NoVcpu]
    /\ kvcpu' = IF vcpus[v].m_fd \in Fds THEN [kvcpu EXCEPT ![vcpus[v].m_fd] = NewKvcpu]
                ELSE kvcpu
    /\ UNCHANGED <<sys, vms, closes, devs, kvmvm, madeVcpu>>

\* n = k.msrs(msrs): the kernel fills the entries it served.
SysMsrs(k, msrs) ==
    /\ sys[k].live
    /\ \E r \in MsrReplies(sys[k].fd_, "KVM_GET_MSRS", msrs) :
          last' = OpOn("msrs", k,
                       [list |-> msrs,
                        out |-> IF r.ret >= 0 THEN ReadMsrs(FeatureMsrs, msrs, r.ret)
                                ELSE msrs],
                       <<r>>, system_msrs(msrs, r))
    /\ UNCHANGED <<fdtable, sys, vms, closes, machVars>>

\* n = v.set_msrs(msrs).
VcpuSetMsrs(v, msrs) ==
    /\ vcpus[v].live
    /\ \E r \in MsrReplies(vcpus[v].m_fd, "KVM_SET_MSRS", msrs) :
          /\ last' = OpOn("set_msrs", v, [list |-> msrs, out |-> msrs],
                          <<r>>, vcpu_set_msrs(msrs, r))
          /\ kvcpu' = IF r.ret >= 0
                      THEN [kvcpu EXCEPT ![vcpus[v].m_fd].msrs = WriteMsrs(@, msrs, r.ret)]
                      ELSE kvcpu
    /\ UNCHANGED <<fdtable, sys, vms, closes, vcpus, devs, kvmvm, madeVcpu>>

\* n = v.get_msrs(msrs): the kernel fills the entries it served.
VcpuGetMsrs(v, msrs) ==
    /\ vcpus[v].live
    /\ \E r \in MsrReplies(vcpus[v].m_fd, "KVM_GET_MSRS", msrs) :
          last' = OpOn("get_msrs", v,
                       [list |-> msrs,
                        out |-> IF r.ret >= 0
                                THEN ReadMsrs(kvcpu[vcpus[v].m_fd].msrs, msrs, r.ret)
                                ELSE msrs],
                       <<r>>, vcpu_get_msrs(msrs, r))
    /\ UNCHANGED <<fdtable, sys, vms, closes, machVars>>

\* What the source of a moved KvmFd holds, and a moved vm as a whole:
\* vm(vm&&) = default moves m_fd and copies m_mmap_size.
KvmFd_moved_from(fd) == NoFd
vm_move_bad(src) ==
    [dst |-> [live |-> TRUE, m_fd |-> src.m_fd, m_mmap_size |-> src.m_mmap_size],
     src |-> src]
vm_move(src) ==
    [dst |-> [live |-> TRUE, m_fd |-> src.m_fd, m_mmap_size |-> src.m_mmap_size],
     src |-> [src EXCEPT !.m_fd = KvmFd_moved_from(src.m_fd)]]

\* vm d(std::move(s)).
VmMoveConstruct(d, s) ==
    /\ d # s /\ ~vms[d].live /\ vms[s].live
    /\ vms' = [vms EXCEPT ![d] = vm_move(vms[s]).dst, ![s] = vm_move(vms[s]).src]
    /\ last' = Op("vm_move", d, <<>>, Ok(0))
    /\ UNCHANGED <<fdtable, sys, closes>>
    /\ UNCHANGED machVars

\* d = std::move(s): d's handle releases the descriptor it owned, failures
\* swallowed, and takes over s's.
VmMoveAssign(d, s) ==
    /\ d # s /\ vms[d].live /\ vms[s].live
    /\ vms' = [vms EXCEPT ![d] = vm_move(vms[s]).dst, ![s] = vm_move(vms[s]).src]
    /\ IF vms[d].m_fd = NoFd
       THEN /\ last' = Op("vm_move_assign", d, <<>>, Ok(0))
            /\ UNCHANGED fdtable
       ELSE \E r \in CloseReplies(vms[d].m_fd) :
               /\ fdtable' = Released(vms[d].m_fd)
               /\ last' = Op("vm_move_assign", d, <<r>>, Ok(0))
    /\ UNCHANGED <<sys, closes>>
    /\ UNCHANGED machVars

\* ~vm: the handle releases the descriptor it owns, failures swallowed.
\* What the kernel kept for the machine can no longer be reached through
\* that descriptor and is forgotten here.
VmDestroy(m) ==
    /\ vms[m].live
    /\ IF vms[m].m_fd = NoFd
       THEN /\ last' = Op("~vm", m, <<>>, Ok(0))
            /\ UNCHANGED fdtable
       ELSE \E r \in CloseReplies(vms[m].m_fd) :
               /\ fdtable' = Released(vms[m].m_fd)
               /\ last' = Op("~vm", m, <<r>>, Ok(0))
    /\ vms' = [vms EXCEPT ![m] = NoVm]
    /\ UNCHANGED <<sys, closes>>
    /\ kvmvm' = IF vms[m].m_fd \in Fds THEN [kvmvm EXCEPT ![vms[m].m_fd] = NewKvm]
                ELSE kvmvm
    /\ madeVcpu' = IF vms[m].m_fd \in Fds THEN [madeVcpu EXCEPT ![vms[m].m_fd] = FALSE]
                   ELSE madeVcpu
    /\ UNCHANGED <<vcpus, devs, kvcpu>>

FamInitVars ==
    /\ kind = "MsrIndexList"
    /\ recs = [r \in Recs |-> NoRec]
    /\ heap = [a \in AllocIds |-> NoBuf]
    /\ fault = "none"
    /\ famLast = FamRecord("init", "s", "s", 0, <<>>)
    /\ copied = [r \in Recs |-> FALSE]

Init ==
    /\ fdtable = [f \in Fds |-> "closed"]
    /\ sys = [k \in SysIds |-> NoSys]
    /\ vms = [m \in VmIds |-> NoVm]
    /\ closes = [k \in SysIds |-> 0]
    /\ last = Op("init", "k1", <<>>, Ok(0))
    /\ vcpus = [v \in VcpuIds |-> NoVcpu]
    /\ devs = [d \in DevIds |-> NoDev]
    /\ kvmvm = [f \in Fds |-> NewKvm]
    /\ kvcpu = [f \in Fds |-> NewKvcpu]
    /\ madeVcpu = [f \in Fds |-> FALSE]
    /\ FamInitVars

\* The life of two root nodes: construction, requests, close() and
\* destruction.
Next ==
    \/ \E k \in SysIds : SysConstruct(k) /\ UNCHANGED famVars
    \/ \E k \in SysIds : SysApiVersion(k) /\ UNCHANGED famVars
    \/ \E k \in SysIds : SysVcpuMmapSize(k) /\ UNCHANGED famVars
    \/ \E k \in SysIds : SysClose(k) /\ UNCHANGED famVars
    \/ \E k \in SysIds : SysDestroy(k) /\ UNCHANGED famVars

\* Ownership of the descriptors: creation, move and destruction of root
\* and machine nodes.
OwnerNext ==
    \/ \E k \in SysIds : SysConstruct(k) /\ UNCHANGED famVars
    \/ \E k \in SysIds, m \in VmIds : SysVm(k, m) /\ UNCHANGED famVars
    \/ \E k \in SysIds : SysDestroy(k) /\ UNCHANGED famVars
    \/ \E d, s \in VmIds : VmMoveConstruct(d, s) /\ UNCHANGED famVars
    \/ \E d, s \in VmIds : VmMoveAssign(d, s) /\ UNCHANGED famVars
    \/ \E m \in VmIds : VmDestroy(m) /\ UNCHANGED famVars

OwnerSpec == Init /\ [][OwnerNext]_vars

\* The requests of one root and of one machine made from it.
DispatchNext ==
    \/ SysConstruct("k1") /\ UNCHANGED famVars
    \/ SysApiVersion("k1") /\ UNCHANGED famVars
    \/ SysVcpuMmapSize("k1") /\ UNCHANGED famVars
    \/ SysMsrIndexList("k1") /\ UNCHANGED famVars
    \/ SysMsrFeatureList("k1") /\ UNCHANGED famVars
    \/ SysSupportedCpuids("k1") /\ UNCHANGED famVars
    \/ SysVm("k1", "m1") /\ UNCHANGED famVars
    \/ SysClose("k1") /\ UNCHANGED famVars
    \/ SysDestroy("k1") /\ UNCHANGED famVars
    \/ VmCheckExtension("m1") /\ UNCHANGED famVars
    \/ VmNumVcpus("m1") /\ UNCHANGED famVars
    \/ VmMaxVcpus("m1") /\ UNCHANGED famVars
    \/ VmNumMemslots("m1") /\ UNCHANGED famVars
    \/ \E nr, max \in RetVals : VmVcpuLimits("m1", nr, max) /\ UNCHANGED famVars
    \/ VmDestroy("m1") /\ UNCHANGED famVars

DispatchSpec == Init /\ [][DispatchNext]_vars

\* One machine made from one root: its cached size, its memory slots, its
\* boot processor, its device and a processor.
MachineNext ==
    \/ SysConstruct("k1") /\ UNCHANGED famVars
    \/ SysVm("k1", "m1") /\ UNCHANGED famVars
    \/ VmMmapSize("m1") /\ UNCHANGED famVars
    \/ VmCheckExtension("m1") /\ UNCHANGED famVars
    \/ \E id \in OrdinalArgs : VmVcpu("m1", "v1", id) /\ UNCHANGED famVars
    \/ \E ty \in DevTypes : VmDevice("m1", "d1", ty, 0) /\ UNCHANGED famVars
    \/ \E id \in OrdinalArgs : VmSetBsp("m1", id) /\ UNCHANGED famVars
    \/ \E s \in SlotArgs, b \in SizeArgs : VmMemslot("m1", s, b) /\ UNCHANGED famVars
    \/ VcpuDestroy("v1") /\ UNCHANGED famVars
    \/ VmDestroy("m1") /\ UNCHANGED famVars

MachineSpec == Init /\ [][MachineNext]_vars

\* The processors of one machine.
VcpuNext ==
    \/ SysConstruct("k1") /\ UNCHANGED famVars
    \/ SysVm("k1", "m1") /\ UNCHANGED famVars
    \/ SysDestroy("k1") /\ UNCHANGED famVars
    \/ \E v \in VcpuIds, id \in Ordinals : VmVcpu("m1", v, id) /\ UNCHANGED famVars
    \/ \E v \in VcpuIds, val \in RegVals : VcpuSetRegs(v, val) /\ UNCHANGED famVars
    \/ \E v \in VcpuIds : VcpuRegs(v) /\ UNCHANGED famVars
    \/ \E v \in VcpuIds : VcpuDestroy(v) /\ UNCHANGED famVars

VcpuSpec == Init /\ [][VcpuNext]_vars

\* The exchanges of register-value lists with the root and with a processor.
MsrNext ==
    \/ SysConstruct("k1") /\ UNCHANGED famVars
    \/ SysVm("k1", "m1") /\ UNCHANGED famVars
    \/ VmVcpu("m1", "v1", 0) /\ UNCHANGED famVars
    \/ \E msrs \in MsrQueries : SysMsrs("k1", msrs) /\ UNCHANGED famVars
    \/ \E msrs \in MsrLists : VcpuSetMsrs("v1", msrs) /\ UNCHANGED famVars
    \/ \E msrs \in MsrQueries : VcpuGetMsrs("v1", msrs) /\ UNCHANGED famVars

MsrSpec == Init /\ [][MsrNext]_vars

\* The state blocks of one processor, read and written.
StateNext ==
    \/ SysConstruct("k1") /\ UNCHANGED famVars
    \/ SysVm("k1", "m1") /\ UNCHANGED famVars
    \/ VmVcpu("m1", "v1", 0) /\ UNCHANGED famVars
    \/ \E b \in StateBlocks : VcpuState("v1", b) /\ UNCHANGED famVars
    \/ \E b \in StateBlocks, val \in StateArgs :
          VcpuSetState("v1", b, val) /\ UNCHANGED famVars

StateSpec == Init /\ [][StateNext]_vars

\* The I/O events of one machine, attached and detached.
IoEventNext ==
    \/ SysConstruct("k1") /\ UNCHANGED famVars
    \/ SysVm("k1", "m1") /\ UNCHANGED famVars
    \/ \E T \in IoEventAddress, e \in EventFdArgs, a \in AddrArgs, d \in DatamatchArgs :
          VmAttachIoevent("m1", T, e, a, d) /\ UNCHANGED famVars
    \/ \E T \in IoEventAddress, e \in EventFdArgs, a \in AddrArgs, d \in DatamatchArgs :
          VmDetachIoevent("m1", T, e, a, d) /\ UNCHANGED famVars
    \/ VmDestroy("m1") /\ UNCHANGED famVars

IoEventSpec == Init /\ [][IoEventNext]_vars

Spec == Init /\ [][Next]_vars

(***************************************************************************)
(* Claims about the FAM records, checked under FamSpec.                    *)
(***************************************************************************)
CopyOps == {"copy_ctor", "copy_assign"}
MoveOps == {"move_ctor", "move_assign"}

\* C1: a record constructed with a requested count n has size() = n and
\* [begin(), end()) spans exactly n elements, all of them inside the entries
\* the buffer was allocated for; n = 0 gives an empty range and no fault.
C1_CountedCtor ==
    famLast.op = "ctor" =>
        LET b == Buf(famLast.dst)
        IN  /\ fault = "none"
            /\ Valid(famLast.dst)
            /\ size(b) = famLast.n
            /\ end(b) - begin(b) = famLast.n
            /\ Len(Span(b)) = famLast.n
            /\ \A i \in 1..Len(Span(b)) : Span(b)[i] # OutOfBounds

C1_Witness ==
    /\ famLast.op = "ctor" /\ famLast.n = 0
    /\ Valid(famLast.dst)
    /\ size(Buf(famLast.dst)) = 0 /\ Span(Buf(famLast.dst)) = <<>>

\* C2: a copy (copy construction or copy assignment) of a valid record has
\* the source's size() and the source's elements in the same order, lives in
\* an allocation of its own, and leaves the source as it was; and a write
\* through one record changes no other record's buffer.
C2_DeepCopy ==
    [][/\ (famLast'.op \in CopyOps /\ fault' = "none") =>
             LET d == famLast'.dst
                 s == famLast'.src
             IN  /\ size(heap'[recs'[d].ptr]) = size(Buf(s))
                 /\ Span(heap'[recs'[d].ptr]) = Span(Buf(s))
                 /\ d # s => /\ recs'[d].ptr # recs'[s].ptr
                             /\ recs'[s] = recs[s]
                             /\ heap'[recs'[s].ptr] = Buf(s)
       /\ (famLast'.op = "write" /\ fault' = "none") =>
             \A r \in Recs \ {famLast'.dst} :
                 Valid(r) => recs'[r] = recs[r] /\ heap'[recs'[r].ptr] = Buf(r)
      ]_vars

\* A copy was made and then written to: the copy and its source differ.
C2_Witness ==
    /\ famLast.op = "write" /\ fault = "none"
    /\ copied[famLast.dst]
    /\ \A r \in Recs : Valid(r) /\ size(Buf(r)) = MaxCount
    /\ Span(Buf("s")) # Span(Buf("d"))

\* C3: the range constructor yields a record whose size() is the length of
\* the source range and whose i-th element is the i-th source element.
C3_RangeCtor ==
    famLast.op = "range_ctor" =>
        LET b == Buf(famLast.dst)
        IN  /\ size(b) = Len(famLast.input)
            /\ Span(b) = famLast.input

C3_Witness ==
    /\ famLast.op = "range_ctor"
    /\ Len(famLast.input) = MaxCount
    /\ famLast.input[1] # famLast.input[MaxCount]
    /\ Span(Buf(famLast.dst)) = famLast.input

\* C4: after moving s into d (d # s), d owns the allocation s owned, with
\* its count and elements unchanged, and s holds a null pointer, so that no
\* query through s reaches the allocation; every live allocation has exactly
\* one owner, a destructor frees the allocation its record owns, and no
\* allocation is ever freed twice.
C4_Move ==
    [][/\ (famLast'.op \in MoveOps /\ famLast'.dst # famLast'.src) =>
             LET d == famLast'.dst
                 s == famLast'.src
             IN  /\ recs'[d].ptr = recs[s].ptr
                 /\ recs'[s].live /\ recs'[s].ptr = NULL
                 /\ recs[s].ptr # NULL =>
                        /\ heap'[recs'[d].ptr] = Buf(s)
                        /\ heap'[recs'[d].ptr].live
                 /\ (recs[d].live /\ recs[d].ptr # NULL) => ~heap'[recs[d].ptr].live
       /\ famLast'.op = "dtor" =>
             (recs[famLast'.dst].ptr # NULL => ~heap'[recs[famLast'.dst].ptr].live)
       /\ fault' # "double_free"
       /\ \A a \in AllocIds :
             heap'[a].live =>
                 Cardinality({r \in Recs : recs'[r].live /\ recs'[r].ptr = a}) = 1
      ]_vars

\* A move assignment took a non-empty record into a record that owned
\* another buffer.
C4_Witness ==
    /\ famLast.op = "move_assign" /\ famLast.dst # famLast.src
    /\ recs[famLast.src].live /\ recs[famLast.src].ptr = NULL
    /\ Valid(famLast.dst) /\ size(Buf(famLast.dst)) = MaxCount
    /\ Cardinality({a \in AllocIds : heap[a].live}) = 1

\* C20: the bytes allocated for a record made with count n are the header
\* plus n elements of the kernel structure: 4 + 4n, 8 + 16n, 8 + 40n,
\* 8 + 48n.
C20_ExactBytes ==
    \A a \in AllocIds :
        heap[a].live =>
            AllocatedBytes(kind, heap[a]) =
                HeaderBytes(kind) + Len(heap[a].ents) * ElementBytes(kind)

(***************************************************************************)
(* Claims about the dispatch of requests, checked under DispatchSpec.      *)
(***************************************************************************)
SingleRequestOps == {"api_version", "vcpu_mmap_size", "check_extension"}
Destructors == {"~system", "~vm"}

\* C5: an operation that is one utility::ioctl call issues one platform
\* call; a result >= 0 (0 included) is returned unchanged and nothing is
\* thrown; a negative result throws an error carrying errno and returns no
\* value.
C5_Dispatch ==
    last.op \in SingleRequestOps =>
        /\ Len(last.replies) = 1
        /\ LET r == last.replies[1]
           IN  /\ r.ret >= 0 => last.res = Ok(r.ret)
               /\ r.ret < 0 => last.res = Err(r.errno)

\* check_extension reported an unsupported capability: 0, not an error.
C5_Witness ==
    /\ last.op = "check_extension"
    /\ last.replies = <<Reply(0, "none")>>
    /\ last.res.ok /\ last.res.val = 0

\* C6: when the platform rejects a request issued by a root or machine
\* operation, the operation stops there and throws an error carrying that
\* request's errno, never a value or a default, and the nodes are as they
\* were before the call.
C6_Propagate ==
    [][(/\ last'.op \notin Destructors
        /\ \E i \in 1..Len(last'.replies) : last'.replies[i].ret < 0)
       => /\ last'.replies[Len(last'.replies)].ret < 0
          /\ \A i \in 1..(Len(last'.replies) - 1) : last'.replies[i].ret >= 0
          /\ last'.res = Err(last'.replies[Len(last'.replies)].errno)
          /\ sys' = sys /\ vms' = vms
      ]_vars

\* max_vcpus got 0 for KVM_CAP_MAX_VCPUS, and the request num_vcpus then
\* made was rejected.
C6_Witness ==
    /\ last.op = "max_vcpus"
    /\ last.replies = <<Reply(0, "none"), Failed("EINVAL")>>
    /\ last.res = Err("EINVAL")
    /\ vms["m1"].live /\ sys["k1"].live

(***************************************************************************)
(* Claims about the life of root nodes, checked under Spec.                *)
(***************************************************************************)
\* C7: over the close() calls and the destruction of a root node, at most
\* one platform close call is issued for its handle.
C7_AtMostOneClose == \A k \in SysIds : closes[k] <= 1

\* C8: a root node destroyed without a close() call before attempts the
\* platform close once, and a failure of that close does not leave the
\* destructor.
C8_DtorSwallows ==
    [][(last'.op = "~system" /\ sys[last'.node].live /\ closes[last'.node] = 0)
       => /\ Len(last'.replies) = 1
          /\ closes'[last'.node] = 1
          /\ last'.res.ok
          /\ ~sys'[last'.node].live
      ]_vars

\* The destructor's close, the only one of the node, failed.
C8_Witness ==
    /\ last.op = "~system"
    /\ closes[last.node] = 1
    /\ last.replies = <<Failed("EIO")>>
    /\ last.res.ok
    /\ ~sys[last.node].live

\* C10: a request issued through a root node that close() released fails.
C10_ReleasedFails ==
    (/\ last.op \in {"api_version", "vcpu_mmap_size"}
     /\ sys[last.node].live /\ sys[last.node].closed_)
    => ~last.res.ok

(***************************************************************************)
(* Claims about ownership, checked under OwnerSpec.                        *)
(***************************************************************************)
\* The live nodes that hold descriptor f and will release it.
FdOwners(s, v, f) ==
    {k \in SysIds : s[k].live /\ ~s[k].closed_ /\ s[k].fd_ = f}
        \cup {m \in VmIds : v[m].live /\ v[m].m_fd = f}

\* C9: after any sequence of creations, moves and destructions of nodes,
\* each open descriptor has at most one owner among the live nodes; a move
\* hands the descriptor to the destination, and the moved-from node neither
\* owns a descriptor nor releases one when it is destroyed.
C9_SingleOwner ==
    [][/\ \A f \in Fds :
             fdtable'[f] # "closed" => Cardinality(FdOwners(sys', vms', f)) <= 1
       /\ last'.op \in {"vm_move", "vm_move_assign"} =>
             \E s \in VmIds \ {last'.node} :
                 /\ vms[s].live /\ vms'[s].live
                 /\ vms'[last'.node].m_fd = vms[s].m_fd
                 /\ vms'[s].m_fd = NoFd
       /\ (last'.op = "~vm" /\ vms[last'.node].m_fd = NoFd) => fdtable' = fdtable
      ]_vars

\* A machine was moved: its descriptor is open and owned by the destination
\* alone, next to a root that owns another.
C9_Witness ==
    /\ last.op = "vm_move"
    /\ \E s \in VmIds \ {last.node} : vms[s].live /\ vms[s].m_fd = NoFd
    /\ vms[last.node].m_fd \in Fds
    /\ fdtable[vms[last.node].m_fd] = "vm"
    /\ FdOwners(sys, vms, vms[last.node].m_fd) = {last.node}
    /\ \E k \in SysIds : sys[k].live /\ FdOwners(sys, vms, sys[k].fd_) = {k}

(***************************************************************************)
(* Claims about one machine, checked under MachineSpec.                    *)
(***************************************************************************)
\* C11: a machine made by system::vm() caches the value the root's
\* vcpu_mmap_size query returned to that call; mmap_size() returns the
\* cached value, and no operation on a live machine changes it.
C11_MmapSize ==
    [][/\ (last'.op = "vm" /\ last'.res.ok) =>
             \E m \in VmIds :
                 /\ ~vms[m].live /\ vms'[m].live
                 /\ vms'[m].m_mmap_size = system_vcpu_mmap_size(last'.replies[1]).val
       /\ last'.op = "mmap_size" =>
             last'.res = Ok(vms[last'.node].m_mmap_size)
       /\ \A m \in VmIds :
             (vms[m].live /\ vms'[m].live) =>
                 vms'[m].m_mmap_size = vms[m].m_mmap_size
      ]_vars

\* mmap_size() returned the size 1 of a machine that by then had a memory
\* slot and a processor.
C11_Witness ==
    /\ last.op = "mmap_size"
    /\ last.res = Ok(1)
    /\ vms["m1"].m_fd \in Fds
    /\ kvmvm[vms["m1"].m_fd].slots # {}
    /\ madeVcpu[vms["m1"].m_fd]

\* C12: device(type, flags) issues one creation request through the
\* machine's descriptor; the device made owns the descriptor the kernel
\* returned, and a rejected request is an error that makes no device.
C12_DeviceRequest ==
    last.op = "device" =>
        /\ Len(last.replies) = 1
        /\ LET r == last.replies[1]
           IN  /\ r.ret >= 0 => \E d \in DevIds : devs[d].live /\ devs[d].m_fd = r.ret
               /\ r.ret < 0 => last.res = Err(r.errno)

(***************************************************************************)
(* Claims about the processors of one machine, checked under VcpuSpec.     *)
(***************************************************************************)
VcpuOps == {"set_regs", "regs", "~vcpu"}

\* What is observed through processor v: its handle, the file behind it and
\* the registers the kernel keeps for it.
Observed(v, nodes, table, kernel) ==
    [node |-> nodes[v], file |-> table[nodes[v].m_fd], state |-> kernel[nodes[v].m_fd]]

\* C13: two processors made under one machine with different ordinals own
\* different open descriptors, and an operation on one of them leaves what
\* is observed through the other unchanged.
C13_Independent ==
    [][/\ \A v, w \in VcpuIds :
             (v # w /\ vcpus'[v].live /\ vcpus'[w].live) =>
                 /\ vcpus'[v].m_fd # vcpus'[w].m_fd
                 /\ vcpus'[v].m_fd \in Fds
                 /\ fdtable'[vcpus'[v].m_fd] = "vcpu"
       /\ last'.op \in VcpuOps =>
             \A w \in VcpuIds \ {last'.node} :
                 vcpus[w].live =>
                     Observed(w, vcpus', fdtable', kvcpu') = Observed(w, vcpus, fdtable, kvcpu)
      ]_vars

\* Processor v1 has just been written while v2, on another descriptor,
\* holds other registers.
C13_Witness ==
    /\ last.op = "set_regs" /\ last.node = "v1" /\ last.res.ok
    /\ vcpus["v1"].live /\ vcpus["v2"].live
    /\ vcpus["v1"].m_fd # vcpus["v2"].m_fd
    /\ kvmvm[vms["m1"].m_fd].created = {0, 1}
    /\ kvcpu[vcpus["v1"].m_fd].regs = 1
    /\ kvcpu[vcpus["v2"].m_fd].regs = 0

\* C14: memslot with memory_size = 0 for a slot that is not registered
\* throws a dispatch error and leaves the machine's slots as they were.
C14_ZeroSlot ==
    [][(/\ last'.op = "memslot"
        /\ last'.arg.memory_size = 0
        /\ last'.arg.slot \notin kvmvm[vms[last'.node].m_fd].slots)
       => /\ ~last'.res.ok
          /\ kvmvm' = kvmvm
      ]_vars

\* The removal of slot 0, which is not registered, was refused.
C14_Witness ==
    /\ last.op = "memslot"
    /\ last.arg = [slot |-> 0, memory_size |-> 0]
    /\ last.replies = <<Failed("EINVAL")>>
    /\ last.res = Err("EINVAL")
    /\ kvmvm[vms[last.node].m_fd].slots = {}

(***************************************************************************)
(* Claims about the exchange of register-value lists, checked under        *)
(* MsrSpec.                                                                *)
(***************************************************************************)
\* The lists a and b name the same registers in the same order.
SameIndices(a, b) ==
    /\ Len(a) = Len(b)
    /\ \A i \in 1..Len(a) : a[i].index = b[i].index
\* No register is named twice in the list.
DistinctIndices(a) ==
    \A i, j \in 1..Len(a) : a[i].index = a[j].index => i = j
\* The step is a get_msrs that follows a set_msrs on the same processor and
\* names the registers that were set.
SetThenGet ==
    /\ last.op = "set_msrs" /\ last.res.ok
    /\ last'.op = "get_msrs" /\ last'.node = last.node
    /\ SameIndices(last.arg.list, last'.arg.list)
\* The get returned the size of the list and read back what was set.
ReadBack ==
    /\ last'.res = Ok(Len(last.arg.list))
    /\ last'.arg.out = last.arg.list

MsrOps == {"msrs", "get_msrs", "set_msrs"}

\* C16: an exchange in which the kernel served fewer entries than the list
\* holds returns that number as its value, not an error, and the number
\* returned is never larger than the size of the list.
C16_PartialSuccess ==
    (last.op \in MsrOps /\ last.replies[1].ret >= 0) =>
        /\ last.res = Ok(last.replies[1].ret)
        /\ last.res.val <= Len(last.arg.list)

\* The root read a list of two entries and the kernel served the first.
C16_Witness ==
    /\ last.op = "msrs"
    /\ Len(last.arg.list) = 2
    /\ last.replies = <<Reply(1, "none")>>
    /\ last.res = Ok(1)
    /\ last.arg.out[1].data = FeatureMsrs[last.arg.list[1].index]

(***************************************************************************)
(* Claims about the capability queries, checked under DispatchSpec.        *)
(***************************************************************************)
\* C17: whatever pair of values the kernel reports for KVM_CAP_NR_VCPUS
\* and KVM_CAP_MAX_VCPUS, max_vcpus() >= num_vcpus().
C17_MaxAtLeastNum ==
    last.op = "vcpu_limits" => last.res.val.max_vcpus >= last.res.val.num_vcpus

\* C18: whatever the capability check reports, num_vcpus() returns at
\* least 4 and num_memslots() at least 32.
C18_AtLeastDefault ==
    /\ (last.op = "num_vcpus" /\ last.res.ok) => last.res.val >= DefaultVcpus
    /\ (last.op = "num_memslots" /\ last.res.ok) => last.res.val >= DefaultMemslots

\* C19: once a vcpu(...) call has succeeded on a machine, every later
\* set_bsp on that machine throws a dispatch error.
C19_BspBeforeVcpus ==
    [][(/\ last'.op = "set_bsp"
        /\ vms[last'.node].m_fd \in Fds
        /\ madeVcpu[vms[last'.node].m_fd])
       => /\ ~last'.res.ok
          /\ Len(last'.replies) = 1
          /\ last'.res = Err(last'.replies[1].errno)
      ]_vars

\* set_bsp was refused on a machine whose only processor node had been made
\* and destroyed again.
C19_Witness ==
    /\ last.op = "set_bsp"
    /\ last.replies = <<Failed("EBUSY")>>
    /\ last.res = Err("EBUSY")
    /\ madeVcpu[vms[last.node].m_fd]
    /\ \A v \in VcpuIds : ~vcpus[v].live

(***************************************************************************)
(* Claims about the state blocks of a processor, checked under StateSpec.  *)
(***************************************************************************)
\* C21: for a processor node, writing back the state block that was just
\* read succeeds and leaves the block as read, and the read that follows
\* yields a value equal to the first.
C21_StateRoundTrip ==
    /\ (last.op = "set_state" /\ last.after # NoValue /\ last.arg.val = last.after)
         => /\ last.res.ok
            /\ kvcpu[vcpus[last.node].m_fd].state[last.arg.block] = last.after
    /\ (last.op = "state" /\ last.after # NoValue)
         => last.res.ok /\ last.res.val = last.after
\* A block that holds 1 was read, written back and read again.
C21_Witness ==
    /\ last.op = "state" /\ last.after = 1
    /\ last.res.ok /\ last.res.val = 1

(***************************************************************************)
(* Claims about system::vm, checked under DispatchSpec.                    *)
(***************************************************************************)
\* What holds of system::vm whatever the order of its two requests: it
\* fails if either request fails, and returns a machine node, built from
\* the new descriptor and the size, only when both succeeded.
FailsIfEitherFails(creation, query) ==
    /\ last.res.ok <=> /\ Len(last.replies) = 2
                       /\ \A i \in 1..2 : last.replies[i].ret >= 0
    /\ ~last.res.ok => last.res.code = last.replies[Len(last.replies)].errno
    /\ last.res.ok => vms[last.arg.made] =
                         [live |-> TRUE, m_fd |-> last.replies[creation].ret,
                          m_mmap_size |-> last.replies[query].ret]
\* C22 as stated: system::vm() first issues the machine-creation request and
\* then immediately the size query, caching the size in the new node; it
\* fails if either request fails and returns a node only when both
\* succeeded.
C22_CreateThenQuery ==
    last.op = "vm" =>
        /\ last.arg.requests[1] = "KVM_CREATE_VM"
        /\ Len(last.arg.requests) = 2 =>
               last.arg.requests[2] = "KVM_GET_VCPU_MMAP_SIZE"
        /\ FailsIfEitherFails(1, 2)
\* C22 amended: system::vm() first issues the size query and then, only when
\* it succeeded, immediately the machine-creation request; it fails if
\* either request fails and returns a node, holding the new descriptor and
\* the size, only when both succeeded.
C22_QueryThenCreate ==
    last.op = "vm" =>
        /\ last.arg.requests[1] = "KVM_GET_VCPU_MMAP_SIZE"
        /\ Len(last.arg.requests) = Len(last.replies)
        /\ IF last.replies[1].ret >= 0
           THEN Len(last.arg.requests) = 2 /\ last.arg.requests[2] = "KVM_CREATE_VM"
           ELSE Len(last.arg.requests) = 1
        /\ FailsIfEitherFails(2, 1)
\* Both requests succeeded, the size is not the descriptor, and the node
\* holds both.
C22_Witness ==
    /\ last.op = "vm" /\ last.res.ok
    /\ Len(last.replies) = 2
    /\ last.replies[1].ret # last.replies[2].ret
    /\ vms[last.arg.made].live

(***************************************************************************)
(* Claims about the number of requests of an operation, checked under      *)
(* MachineSpec.                                                            *)
(***************************************************************************)
\* The operations of the root and machine nodes that stand for platform
\* requests (mmap_size, which returns the cached size, construction and
\* destruction are not among them).
RequestOps ==
    {"api_version", "vcpu_mmap_size", "msr_index_list", "msr_feature_list",
     "msrs", "vm", "check_extension", "num_vcpus", "max_vcpus",
     "num_memslots", "vcpu", "device", "set_bsp", "memslot"}
\* The operations that may issue two: the enumerations that fill a list, and
\* vm(), whose two requests the specification names.
TwoRequestOps == {"msr_index_list", "msr_feature_list", "vm"}

\* C23: every operation of the root and machine nodes issues exactly one
\* platform request per invocation, or exactly two when it is one of the
\* two-request operations; none issues zero requests and none issues a
\* number that depends on the values the kernel returns.
C23_RequestCount ==
    last.op \in RequestOps =>
        /\ Len(last.replies) >= 1
        /\ Len(last.replies) = 2 => last.op \in TwoRequestOps
        /\ Len(last.replies) <= 2

(***************************************************************************)
(* Claims about the I/O events of a machine, checked under IoEventSpec.    *)
(***************************************************************************)
IoEventOps == {"attach_ioevent", "detach_ioevent"}

\* C24: attach_ioevent<T>(eventfd, addr, datamatch) issues one KVM_IOEVENTFD
\* request whose flags hold the port bit exactly when T is Pio, the
\* data-match bit exactly when a data-match value (datamatch > 0) was given,
\* and never the deassign bit; detach_ioevent builds the same argument with
\* the deassign bit added; addr, the event descriptor and datamatch are
\* passed unchanged.
C24_IoEventArgument ==
    last.op \in IoEventOps =>
        LET a == last.arg
            io == last.arg.ioeventfd
        IN  /\ Len(last.replies) = 1
            /\ "PIO" \in io.flags <=> a.T = "Pio"
            /\ "DATAMATCH" \in io.flags <=> a.datamatch > 0
            /\ "DEASSIGN" \in io.flags <=> last.op = "detach_ioevent"
            /\ io.flags \subseteq IoEventFlags
            /\ io.addr = a.addr /\ io.fd = a.eventfd /\ io.datamatch = a.datamatch
            /\ last.op = "detach_ioevent" =>
                   io = [vm_attach_ioevent(a.T, a.eventfd, a.addr, a.datamatch)
                            EXCEPT !.flags = @ \cup {"DEASSIGN"}]
\* A port trigger gated by a data-match value was attached, at an address
\* and descriptor that differ from the value.
C24_Witness ==
    /\ last.op = "attach_ioevent" /\ last.res.ok
    /\ last.arg.T = "Pio" /\ last.arg.datamatch = 2
    /\ last.arg.addr = 1 /\ last.arg.eventfd = 0
    /\ last.arg.ioeventfd.flags = {"DATAMATCH", "PIO"}

(***************************************************************************)
(* Claims about the enumerations of the root, checked under DispatchSpec.  *)
(***************************************************************************)
EnumOps == {"msr_index_list", "msr_feature_list", "supported_cpuids"}

\* C25: after a successful enumeration that fills a list of the default
\* capacity (256, 22 or 80 entries), size() of the list is the number of
\* entries the kernel populated and is at most that capacity, so an
\* iteration over [begin(), end()) stays inside the allocation.
C25_WithinCapacity ==
    (last.op \in EnumOps /\ last.res.ok) =>
        LET list == last.res.val
        IN  /\ size(list) = last.arg.entries
            /\ size(list) <= DefaultCapacity(last.arg.kind)
            /\ Len(Span(list)) = last.arg.entries
            /\ \A i \in DOMAIN Span(list) : Span(list)[i] # OutOfBounds
            /\ AllocatedBytes(last.arg.kind, list) >=
                  HeaderBytes(last.arg.kind) + size(list) * ElementBytes(last.arg.kind)
\* The kernel had exactly as many entries as the feature list takes.
C25_Witness ==
    /\ last.op = "msr_feature_list" /\ last.res.ok
    /\ size(last.res.val) = MAX_IO_MSRS_FEATURES
    /\ \A i \in DOMAIN Span(last.res.val) : Span(last.res.val)[i] = 1

(***************************************************************************)
(* Claims about the initial contents of a record, checked under FamSpec    *)
(* and LegacySpec.                                                         *)
(***************************************************************************)
CountedCtors == {"ctor", "legacy_ctor"}

\* C26: a record constructed with count n owns a zero-initialised buffer:
\* before anything is written to it, every trailing element reads as zero
\* (the header fields other than the count are not kept apart from the
\* elements here).
C26_ZeroInitialised ==
    famLast.op \in CountedCtors =>
        LET b == Buf(famLast.dst)
        IN  /\ size(b) = famLast.n
            /\ \A i \in DOMAIN b.ents : b.ents[i] = 0

(***************************************************************************)
(* Claims about the descriptors system::vm leaves, checked under OwnerSpec. *)
(***************************************************************************)
\* The live machine nodes that hold descriptor f.
VmOwners(f) == {m \in VmIds : vms[m].live /\ vms[m].m_fd = f}

\* C27: when system::vm() fails because one of its two requests is
\* rejected, no machine descriptor is left open without an owner: every
\* descriptor a successful creation request returned is owned by a machine
\* node that will release it.
C27_NoOrphan ==
    /\ \A f \in Fds : fdtable[f] = "vm" => Cardinality(VmOwners(f)) = 1
    /\ (last.op = "vm" /\ ~last.res.ok) =>
           \A i \in DOMAIN last.replies :
               last.arg.requests[i] = "KVM_CREATE_VM" => last.replies[i].ret < 0
    /\ (last.op = "vm" /\ last.res.ok) =>
           VmOwners(last.replies[2].ret) = {last.arg.made}
\* vm() failed at its creation request while another machine holds its
\* descriptor.
C27_Witness ==
    /\ last.op = "vm" /\ ~last.res.ok
    /\ Len(last.replies) = 2
    /\ \E f \in Fds : fdtable[f] = "vm"

====
